---- MODULE Spec2Model ----
(***************************************************************************)
(* The order book of TradingAgent                                          *)
(* (samples/python/agents/google_adk_trading/agent.py): place_order,       *)
(* match_orders and the price lookup get_market_price.                     *)
(*                                                                         *)
(* An optional value (Optional[float]) is a sequence: <<>> is None and     *)
(* <<p>> is the value p.  The clock counts the place_order calls, and a     *)
(* timestamp (datetime.now()) is the number of the call that read it.      *)
(***************************************************************************)
EXTENDS Integers, Sequences, FiniteSets, TLC

VARIABLES
    order_book,     \* self.order_book: the "buy" list and the "sell" list
    trade_history,  \* self.trade_history
    clock,          \* the number of place_order calls made
    call,           \* the last call: its arguments (arg: the optional argument
                    \* of a query) and the market agent's answer
    result,         \* what the last call returned
    admitted,       \* audit: the orders place_order created, as created
    fills,          \* audit: for trade_history[k], the loop state it was made in
    threads,        \* SpecConc: for each thread, where it is in its place_order
                    \* call and the local variables of its match_orders
    send            \* SpecSend: where a send_task call of a connection is, its
                    \* last_valid_task, and what it has received and called

vars == <<order_book, trade_history, clock, call, result, admitted, fills, threads, send>>

\* ---------------------------------------------------------------- bounds
\* place_order calls in a behaviour of Spec (any input).
MaxCalls == 3
\* place_order calls in a behaviour of SpecValid (valid input only).
MaxValidCalls == 4
\* place_order calls in a behaviour of SpecQuery (two users, with queries).
MaxQueryCalls == 3
\* place_order calls in a behaviour of SpecSelf (two users, one symbol).
MaxSelfCalls == 3
\* place_order calls in a behaviour of SpecLoop (any quantity, one symbol).
MaxLoopCalls == 4
\* Responses that a stream gives in a behaviour of SpecSend.
MaxResponses == 3

\* ---------------------------------------------------------------- inputs
Users == {"u1"}
Symbols == {"X", "Y"}
Sides == {"buy", "sell", "hold"}
Quantities == {-1, 0, 1}
Prices == {0, 1, 2}
ValidSides == {"buy", "sell"}
ValidQuantities == {1, 2}
ValidPrices == {1, 2}

LoopQuantities == {-1, 0, 1, 2}
QueryUsers == {"u1", "u2"}
QueryPrices == {1}

Threads == {"t1", "t2"}

None == <<>>
Some(v) == <<v>>
Optional(S) == {None} \cup {Some(v) : v \in S}

\* What the HTTP request to the market agent does: it raises, or it gives a
\* JSON body with a status and a price.
Responses(P) ==
    {[raised |-> TRUE, status |-> "error", price |-> 0],
     [raised |-> FALSE, status |-> "error", price |-> 0]}
    \cup {[raised |-> FALSE, status |-> "success", price |-> p] : p \in P}

NoResponse == [raised |-> FALSE, status |-> "unasked", price |-> 0]

\* ------------------------------------------------------------ list helpers
\* A slice that starts one element late.
FromNext(list, k) == SubSeq(list, k + 1, Len(list))

\* list[k:] of Python, with k counted from 1 here
From(list, k) == SubSeq(list, k, Len(list))

Min(a, b) == IF a <= b THEN a ELSE b

\* A key that forgets the sign of the buy side.
KeyUnsigned(o, sign) == o.price

\* The sort key of match_orders: -x["price"] for the buy side (sign = -1),
\* x["price"] for the sell side (sign = 1).
Key(o, sign) == sign * o.price

RECURSIVE InsertUnstable(_, _, _)
\* An insertion that puts x before the elements of equal key.
InsertUnstable(x, list, sign) ==
    IF list = <<>> THEN <<x>>
    ELSE IF Key(Head(list), sign) < Key(x, sign)
         THEN <<Head(list)>> \o InsertUnstable(x, Tail(list), sign)
         ELSE <<x>> \o list

RECURSIVE Insert(_, _, _)
\* Where x goes in a sorted list: after every element whose key is not
\* greater, since Python's sorted is stable.
Insert(x, list, sign) ==
    IF list = <<>> THEN <<x>>
    ELSE IF Key(Head(list), sign) <= Key(x, sign)
         THEN <<Head(list)>> \o Insert(x, Tail(list), sign)
         ELSE <<x>> \o list

\* No sorting at all.
unsorted(list, sign) == list

RECURSIVE sorted(_, _)
\* sorted(list, key=...): ascending by key, equal keys keep their order
sorted(list, sign) ==
    IF list = <<>> THEN <<>>
    ELSE Insert(list[Len(list)], sorted(SubSeq(list, 1, Len(list) - 1), sign), sign)

\* -------------------------------------------------------------- the agent
\* A lookup that does not look at the status of the answer.
get_market_price_any_status(resp) ==
    IF resp.raised THEN None ELSE Some(resp.price)

\* get_market_price: the price of a successful answer, None for any other
\* answer and for any exception.
get_market_price(resp) ==
    IF resp.raised THEN None
    ELSE IF resp.status = "success" THEN Some(resp.price)
    ELSE None

\* side not in ["buy", "sell"]
InvalidSide(side) == side \notin {"buy", "sell"}

\* A lookup made before the side is looked at.
AskedBeforeSide(side, price) == price = None

\* The market agent is asked when the side is valid and no price is given.
Asked(side, price) == ~InvalidSide(side) /\ price = None

\* The other key of order_book
OtherSide(side) == IF side = "sell" THEN "buy" ELSE "sell"

\* The order_id of a new order: the number of orders in the book, plus one,
\* as a decimal string.
NewOrderId(book, side) ==
    ToString(Len(book[side]) + Len(book[OtherSide(side)]) + 1)

\* The order dictionary of place_order
NewOrder(book, user_id, symbol, side, quantity, price, now) ==
    [order_id |-> NewOrderId(book, side),
     user_id |-> user_id,
     symbol |-> symbol,
     side |-> side,
     price |-> price,
     quantity |-> quantity,
     timestamp |-> now]

OfSymbol(list, symbol) == SelectSeq(list, LAMBDA o : o.symbol = symbol)
\* A rebuild that keeps nothing of the other symbols.
NoneOfOthers(list, symbol) == <<>>
NotOfSymbol(list, symbol) == SelectSeq(list, LAMBDA o : o.symbol # symbol)
\* A rebuild that keeps the orders with nothing left.
OpenOrNot(list) == list

Open(list) == SelectSeq(list, LAMBDA o : o.quantity > 0)

\* A test that matches every pair.
CrossesAny(buy, sell) == TRUE

\* A test that lets no participant trade with their own order.
CrossesOthers(buy, sell) ==
    buy.price >= sell.price /\ buy.user_id # sell.user_id

\* A comparison that leaves equal prices unmatched.
CrossesStrictly(buy, sell) == buy.price > sell.price

\* buy["price"] >= sell["price"]
Crosses(buy, sell) == buy.price >= sell.price

\* A quantity taken from the buy order alone.
TradeQtyOfBuy(buy, sell) == buy.quantity

\* trade_qty of a matched pair
TradeQty(buy, sell) == Min(buy.quantity, sell.quantity)

\* The price of the buy order instead.
TradePriceOfBuy(buy, sell) == buy.price

TradePrice(buy, sell) == sell.price

NewTrade(symbol, buy, sell, now) ==
    [symbol |-> symbol,
     price |-> TradePrice(buy, sell),
     quantity |-> TradeQty(buy, sell),
     buy_user_id |-> buy.user_id,
     sell_user_id |-> sell.user_id,
     timestamp |-> now]

\* What the audit keeps of one pass of the loop that trades: the two orders
\* and the two sorted lists as they are just before the trade.
NewFill(m, buy, sell, now) ==
    [buy |-> buy, sell |-> sell,
     buy_orders |-> m.buy_orders, sell_orders |-> m.sell_orders,
     i |-> m.i, j |-> m.j, incoming |-> now]

\* An index that moves on whether or not the order has anything left.
AdvanceAlways(index, order) == index + 1

\* if buy["quantity"] == 0: i += 1, and the same for sell and j
Advance(index, order) == IF order.quantity = 0 THEN index + 1 ELSE index

RECURSIVE MatchLoop(_, _, _)
\* The while loop of match_orders, from the loop state m (indices from 1).
MatchLoop(m, symbol, now) ==
    IF m.i <= Len(m.buy_orders) /\ m.j <= Len(m.sell_orders)
    THEN LET buy == m.buy_orders[m.i]
             sell == m.sell_orders[m.j]
         IN  IF Crosses(buy, sell)
             THEN LET trade_qty == TradeQty(buy, sell)
                      buy2 == [buy EXCEPT !.quantity = @ - trade_qty]
                      sell2 == [sell EXCEPT !.quantity = @ - trade_qty]
                  IN  MatchLoop(
                        [buy_orders |-> [m.buy_orders EXCEPT ![m.i] = buy2],
                         sell_orders |-> [m.sell_orders EXCEPT ![m.j] = sell2],
                         i |-> Advance(m.i, buy2),
                         j |-> Advance(m.j, sell2),
                         trades |-> Append(m.trades, NewTrade(symbol, buy, sell, now)),
                         fills |-> Append(m.fills, NewFill(m, buy, sell, now))],
                        symbol, now)
             ELSE m
    ELSE m

\* match_orders: the loop state at the end of the loop, and the rebuilt book.
MatchEnd(book, symbol, now) ==
    MatchLoop([buy_orders |-> sorted(OfSymbol(book.buy, symbol), -1),
               sell_orders |-> sorted(OfSymbol(book.sell, symbol), 1),
               i |-> 1, j |-> 1, trades |-> <<>>, fills |-> <<>>],
              symbol, now)

Rebuilt(book, m, symbol) ==
    [buy |-> Open(From(m.buy_orders, m.i)) \o NotOfSymbol(book.buy, symbol),
     sell |-> Open(From(m.sell_orders, m.j)) \o NotOfSymbol(book.sell, symbol)]

\* The order of the call as match_orders leaves it (the dictionary is shared
\* by the book, the sorted lists and the result).
Final(m, order) ==
    LET all == m.buy_orders \o m.sell_orders
        k == CHOOSE n \in 1..Len(all) : all[n].timestamp = order.timestamp
    IN  all[k]

\* if user_id: / if symbol: an argument that is given and is not empty
Truthy(arg) == arg # None /\ arg[1] # ""

\* What get_trade_history(user_id) returns.
TradesOf(history, user_id) ==
    IF Truthy(user_id)
    THEN SelectSeq(history, LAMBDA t : t.buy_user_id = user_id[1]
                                       \/ t.sell_user_id = user_id[1])
    ELSE history

\* What get_order_book(symbol) returns.
BookOf(book, symbol) ==
    IF Truthy(symbol)
    THEN [buy |-> OfSymbol(book.buy, symbol[1]),
          sell |-> OfSymbol(book.sell, symbol[1])]
    ELSE book

Error(message) == [status |-> "error", message |-> message, order |-> <<>>]
Success(order) == [status |-> "success", message |-> "", order |-> <<order>>]

NoResult == [status |-> "none", message |-> "", order |-> <<>>]

NoCall ==
    [op |-> "init", user_id |-> "", symbol |-> "", side |-> "", quantity |-> 0,
     price |-> None, response |-> NoResponse, arg |-> None]

\* A connection on which send_task has not been called.
NotSent ==
    [pc |-> "idle", streaming |-> FALSE, task_callback |-> FALSE,
     last_valid_task |-> None, responses |-> <<>>, called |-> <<>>,
     returned |-> <<>>, result |-> None]

\* A thread that has not called place_order.
Idle ==
    [pc |-> "idle", symbol |-> "", timestamp |-> 0, buy_orders |-> <<>>,
     sell_orders |-> <<>>, i |-> 1, j |-> 1, rest |-> <<>>]

Init ==
    /\ order_book = [buy |-> <<>>, sell |-> <<>>]
    /\ trade_history = <<>>
    /\ clock = 0
    /\ call = NoCall
    /\ result = NoResult
    /\ admitted = <<>>
    /\ fills = <<>>
    /\ threads = [t \in Threads |-> Idle]
    /\ send = NotSent

\* A price that is taken from the market agent whatever the caller gave.
ResolvedFromMarket(price, resp) == get_market_price(resp)

\* The price of the order: the caller's, and the market agent's when the
\* caller gave none.
Resolved(price, resp) == IF price = None THEN get_market_price(resp) ELSE price

\* place_order(user_id, symbol, side, quantity, price), where resp is what the
\* market agent answers if it is asked.
place_order(user_id, symbol, side, quantity, price, resp) ==
    LET asked == Asked(side, price)
        resolved == Resolved(price, resp)
    IN  /\ clock' = clock + 1
        /\ UNCHANGED <<threads, send>>
        /\ call' = [op |-> "place_order", user_id |-> user_id, symbol |-> symbol,
                    side |-> side, quantity |-> quantity, price |-> price,
                    response |-> IF asked THEN resp ELSE NoResponse,
                    arg |-> None]
        /\ IF InvalidSide(side)
           THEN /\ result' = Error("Invalid side, must be 'buy' or 'sell'")
                /\ UNCHANGED <<order_book, trade_history, admitted, fills>>
           ELSE IF resolved = None
           THEN /\ result' = Error("Cannot fetch market price")
                /\ UNCHANGED <<order_book, trade_history, admitted, fills>>
           ELSE LET now == clock + 1
                    order == NewOrder(order_book, user_id, symbol, side, quantity,
                                      resolved[1], now)
                    appended == [order_book EXCEPT ![side] = Append(@, order)]
                    m == MatchEnd(appended, symbol, now)
                IN  /\ admitted' = Append(admitted, order)
                    /\ order_book' = Rebuilt(appended, m, symbol)
                    /\ trade_history' = trade_history \o m.trades
                    /\ fills' = fills \o m.fills
                    /\ result' = Success(Final(m, order))

\* The answers the market agent can give to a call: none when it is not asked.
Answers(side, price, P) ==
    IF Asked(side, price) THEN Responses(P) ELSE {NoResponse}

\* Callers of one symbol that pass any side, quantity and price.
Next ==
    \E user_id \in Users, symbol \in {"X"}, side \in Sides,
       quantity \in Quantities, price \in Optional(Prices) :
        \E resp \in Answers(side, price, Prices) :
            /\ clock < MaxCalls
            /\ place_order(user_id, symbol, side, quantity, price, resp)

Spec == Init /\ [][Next]_vars

\* Callers that pass a side, a positive quantity and a positive price.
NextValid ==
    \E user_id \in Users, symbol \in Symbols, side \in ValidSides,
       quantity \in ValidQuantities, price \in ValidPrices :
        /\ clock < MaxValidCalls
        /\ place_order(user_id, symbol, side, quantity, Some(price), NoResponse)

SpecValid == Init /\ [][NextValid]_vars

\* A query that stores the filtered list it returns.
get_trade_history_storing(user_id) ==
    /\ call' = [NoCall EXCEPT !.op = "get_trade_history", !.arg = user_id]
    /\ result' = TradesOf(trade_history, user_id)
    /\ trade_history' = TradesOf(trade_history, user_id)
    /\ UNCHANGED <<order_book, clock, admitted, fills, threads, send>>

\* get_trade_history(user_id): the result is the list it returns.
get_trade_history(user_id) ==
    /\ call' = [NoCall EXCEPT !.op = "get_trade_history", !.arg = user_id]
    /\ result' = TradesOf(trade_history, user_id)
    /\ UNCHANGED <<order_book, trade_history, clock, admitted, fills, threads, send>>

\* A query that stores the filtered lists it returns.
get_order_book_storing(symbol) ==
    /\ call' = [NoCall EXCEPT !.op = "get_order_book", !.arg = symbol]
    /\ result' = BookOf(order_book, symbol)
    /\ order_book' = BookOf(order_book, symbol)
    /\ UNCHANGED <<trade_history, clock, admitted, fills, threads, send>>

\* get_order_book(symbol): the result is the dictionary it returns.
get_order_book(symbol) ==
    /\ call' = [NoCall EXCEPT !.op = "get_order_book", !.arg = symbol]
    /\ result' = BookOf(order_book, symbol)
    /\ UNCHANGED <<order_book, trade_history, clock, admitted, fills, threads, send>>

\* Two users that place valid orders, and queries with no argument, an empty
\* one, and the names of users and symbols.
PlaceQuery ==
    \E user_id \in QueryUsers, symbol \in Symbols, side \in ValidSides,
       quantity \in ValidQuantities, price \in QueryPrices :
        /\ clock < MaxQueryCalls
        /\ place_order(user_id, symbol, side, quantity, Some(price), NoResponse)

QueryTrades == \E user_id \in Optional(QueryUsers \cup {""}) : get_trade_history(user_id)

QueryBook == \E symbol \in Optional(Symbols \cup {""}) : get_order_book(symbol)

NextQuery == PlaceQuery \/ QueryTrades \/ QueryBook

SpecQuery == Init /\ [][NextQuery]_vars

\* Two participants that place valid orders of one symbol at two prices.
NextSelf ==
    \E user_id \in QueryUsers, side \in ValidSides,
       quantity \in ValidQuantities, price \in ValidPrices :
        /\ clock < MaxSelfCalls
        /\ place_order(user_id, "X", side, quantity, Some(price), NoResponse)

SpecSelf == Init /\ [][NextSelf]_vars

\* Callers of one symbol that pass any quantity, with a side and a price that
\* are valid.
NextLoop ==
    \E user_id \in Users, side \in ValidSides,
       quantity \in LoopQuantities, price \in ValidPrices :
        /\ clock < MaxLoopCalls
        /\ place_order(user_id, "X", side, quantity, Some(price), NoResponse)

SpecLoop == Init /\ [][NextLoop]_vars

\* ------------------------------------------- place_order from two threads
\* TradingAgent takes no lock: two threads that call place_order on the same
\* agent interleave between the statements of place_order and match_orders,
\* and inside the assignments of lines 112 and 113 between the evaluation of
\* the right-hand side and the store. Each thread makes one call, with a side,
\* a quantity and a price that are valid.

\* The state of the agent and the audit after one place_order call that ran
\* alone (lines 60 to 72).
Placed(st, user_id, symbol, side, quantity, price, now) ==
    LET order == NewOrder(st.book, user_id, symbol, side, quantity, price, now)
        appended == [st.book EXCEPT ![side] = Append(@, order)]
        m == MatchEnd(appended, symbol, now)
    IN  [book |-> Rebuilt(appended, m, symbol),
         history |-> st.history \o m.trades,
         admitted |-> Append(st.admitted, order)]

\* The agent the threads share: one sell order rests in it.
Seed ==
    Placed([book |-> [buy |-> <<>>, sell |-> <<>>], history |-> <<>>,
            admitted |-> <<>>],
           "u1", "X", "sell", 2, 1, 1)

InitConc ==
    /\ order_book = Seed.book
    /\ trade_history = Seed.history
    /\ clock = 1
    /\ call = NoCall
    /\ result = NoResult
    /\ admitted = Seed.admitted
    /\ fills = <<>>
    /\ threads = [t \in Threads |-> Idle]
    /\ send = NotSent

\* buy["quantity"] -= trade_qty changes the dictionary, which every list that
\* holds the order shares.
Marked(list, timestamp, quantity) ==
    [k \in 1..Len(list) |->
        IF list[k].timestamp = timestamp
        THEN [list[k] EXCEPT !.quantity = quantity]
        ELSE list[k]]

\* Lines 60 to 70: the order is made and appended to its side of the book.
append_order(t, user_id, symbol, side, quantity, price) ==
    LET order == NewOrder(order_book, user_id, symbol, side, quantity, price,
                          clock + 1)
    IN  /\ threads[t].pc = "idle"
        /\ clock' = clock + 1
        /\ order_book' = [order_book EXCEPT ![side] = Append(@, order)]
        /\ admitted' = Append(admitted, order)
        /\ threads' = [threads EXCEPT ![t] =
                          [@ EXCEPT !.pc = "sort_buy", !.symbol = symbol,
                                    !.timestamp = clock + 1]]
        /\ UNCHANGED <<trade_history, call, result, fills, send>>

\* Line 77
sort_buy(t) ==
    /\ threads[t].pc = "sort_buy"
    /\ threads' = [threads EXCEPT ![t] =
                      [@ EXCEPT !.pc = "sort_sell",
                                !.buy_orders =
                                    sorted(OfSymbol(order_book.buy, threads[t].symbol), -1)]]
    /\ UNCHANGED <<order_book, trade_history, clock, call, result, admitted, fills, send>>

\* Line 78
sort_sell(t) ==
    /\ threads[t].pc = "sort_sell"
    /\ threads' = [threads EXCEPT ![t] =
                      [@ EXCEPT !.pc = "loop",
                                !.sell_orders =
                                    sorted(OfSymbol(order_book.sell, threads[t].symbol), 1)]]
    /\ UNCHANGED <<order_book, trade_history, clock, call, result, admitted, fills, send>>

\* Lines 82 to 107: one pass of the loop that trades.
loop_trade(t) ==
    LET th == threads[t]
    IN  /\ th.pc = "loop"
        /\ th.i <= Len(th.buy_orders)
        /\ th.j <= Len(th.sell_orders)
        /\ LET buy == th.buy_orders[th.i]
               sell == th.sell_orders[th.j]
               trade_qty == TradeQty(buy, sell)
               Both(list) ==
                   Marked(Marked(list, buy.timestamp, buy.quantity - trade_qty),
                          sell.timestamp, sell.quantity - trade_qty)
           IN  /\ Crosses(buy, sell)
               /\ trade_history' =
                      Append(trade_history, NewTrade(th.symbol, buy, sell, clock))
               /\ order_book' = [buy |-> Both(order_book.buy),
                                 sell |-> Both(order_book.sell)]
               /\ threads' =
                      [u \in Threads |->
                          [threads[u] EXCEPT
                              !.buy_orders = Both(@),
                              !.sell_orders = Both(@),
                              !.rest = Both(@),
                              !.i = IF u = t /\ buy.quantity = trade_qty
                                    THEN @ + 1 ELSE @,
                              !.j = IF u = t /\ sell.quantity = trade_qty
                                    THEN @ + 1 ELSE @]]
        /\ UNCHANGED <<clock, call, result, admitted, fills, send>>

\* Lines 82 and 108 to 109: the loop ends.
loop_exit(t) ==
    LET th == threads[t]
    IN  /\ th.pc = "loop"
        /\ ~(/\ th.i <= Len(th.buy_orders)
              /\ th.j <= Len(th.sell_orders)
              /\ Crosses(th.buy_orders[th.i], th.sell_orders[th.j]))
        /\ threads' = [threads EXCEPT ![t] = [@ EXCEPT !.pc = "read_buy"]]
        /\ UNCHANGED <<order_book, trade_history, clock, call, result, admitted, fills, send>>

\* Line 112, the right-hand side
read_buy(t) ==
    /\ threads[t].pc = "read_buy"
    /\ threads' = [threads EXCEPT ![t] =
                      [@ EXCEPT !.pc = "store_buy",
                                !.rest = Open(From(threads[t].buy_orders, threads[t].i))
                                         \o NotOfSymbol(order_book.buy, threads[t].symbol)]]
    /\ UNCHANGED <<order_book, trade_history, clock, call, result, admitted, fills, send>>

\* Line 112, the store
store_buy(t) ==
    /\ threads[t].pc = "store_buy"
    /\ order_book' = [order_book EXCEPT !.buy = threads[t].rest]
    /\ threads' = [threads EXCEPT ![t] = [@ EXCEPT !.pc = "read_sell"]]
    /\ UNCHANGED <<trade_history, clock, call, result, admitted, fills, send>>

\* Line 113, the right-hand side
read_sell(t) ==
    /\ threads[t].pc = "read_sell"
    /\ threads' = [threads EXCEPT ![t] =
                      [@ EXCEPT !.pc = "store_sell",
                                !.rest = Open(From(threads[t].sell_orders, threads[t].j))
                                         \o NotOfSymbol(order_book.sell, threads[t].symbol)]]
    /\ UNCHANGED <<order_book, trade_history, clock, call, result, admitted, fills, send>>

\* Lines 113 and 72: the store, and place_order returns.
store_sell(t) ==
    /\ threads[t].pc = "store_sell"
    /\ order_book' = [order_book EXCEPT !.sell = threads[t].rest]
    /\ threads' = [threads EXCEPT ![t] = [@ EXCEPT !.pc = "done"]]
    /\ UNCHANGED <<trade_history, clock, call, result, admitted, fills, send>>

NextConc ==
    \E t \in Threads :
        \/ \E user_id \in Users, symbol \in Symbols, side \in ValidSides,
              quantity \in ValidQuantities, price \in ValidPrices :
               append_order(t, user_id, symbol, side, quantity, price)
        \/ sort_buy(t)
        \/ sort_sell(t)
        \/ loop_trade(t)
        \/ loop_exit(t)
        \/ read_buy(t)
        \/ store_buy(t)
        \/ read_sell(t)
        \/ store_sell(t)

SpecConc == InitConc /\ [][NextConc]_vars

\* ---------------------------------------- RemoteAgentConnections.send_task
\* request.id and request.sessionId
Request == [id |-> "r1", sessionId |-> "s1"]

\* The values that go through send_task: a Task, or one of the two events of
\* a stream. An event has no session id, and only a status event can be final.
Task(id, sessionId, state) ==
    [kind |-> "Task", id |-> id, sessionId |-> sessionId, state |-> state,
     final |-> FALSE]

TaskStatusUpdateEvent(id, state, final) ==
    [kind |-> "TaskStatusUpdateEvent", id |-> id, sessionId |-> "",
     state |-> state, final |-> final]

TaskArtifactUpdateEvent(id) ==
    [kind |-> "TaskArtifactUpdateEvent", id |-> id, sessionId |-> "",
     state |-> "", final |-> FALSE]

\* init_task of the streaming mode
InitTask == Task(Request.id, Request.sessionId, "submitted")

\* What the remote agent can stream: events with the id of the request or
\* with another id.
StreamResults ==
    {TaskStatusUpdateEvent(id, "working", FALSE) : id \in {"r1", "r9"}}
    \cup {TaskStatusUpdateEvent(id, "completed", TRUE) : id \in {"r1", "r9"}}
    \cup {TaskArtifactUpdateEvent("r9")}

\* What the remote agent can answer when it does not stream.
TaskResults == {Task(Request.id, Request.sessionId, state) :
                   state \in {"working", "completed"}}

\* What a task_callback can return for an argument: nothing, the argument,
\* or a task of its own.
Returns(arg) == {None, Some(arg), Some(Task("r9", "s9", "completed"))}

\* ensure_task(obj): the task it returns, which the caller also stores in
\* last_valid_task.
ensure_task(obj, last_valid_task) ==
    IF obj # None /\ obj[1].kind = "Task" THEN obj[1]
    ELSE IF obj # None /\ obj[1].kind = "TaskStatusUpdateEvent"
    THEN Task(Request.id, Request.sessionId, obj[1].state)
    ELSE IF obj # None /\ obj[1].kind = "TaskArtifactUpdateEvent"
    THEN Task(Request.id, Request.sessionId, "working")
    ELSE IF last_valid_task # None THEN last_valid_task[1]
    ELSE Task(Request.id, Request.sessionId, "working")

\* A stream that is read to its end.
NeverFinal(obj) == FALSE

\* getattr(response.result, 'final', False)
IsFinal(obj) == obj.final

\* The variables of the trading agent, which a connection leaves alone.
Trading ==
    <<order_book, trade_history, clock, call, result, admitted, fills, threads>>

\* send_task is called: in streaming mode with a callback, the callback gets
\* init_task, which is remembered.
send_task_begin(streaming, task_callback) ==
    /\ send.pc = "idle"
    /\ send' = [send EXCEPT
                   !.pc = IF streaming THEN "streaming" ELSE "awaiting",
                   !.streaming = streaming,
                   !.task_callback = task_callback,
                   !.called = IF streaming /\ task_callback
                              THEN <<InitTask>> ELSE <<>>,
                   !.last_valid_task = IF streaming /\ task_callback
                                       THEN Some(InitTask) ELSE None]
    /\ UNCHANGED Trading

\* One pass of the async for loop: the stream gives a response, and the
\* callback, if there is one, is called with it and returns a value.
stream_response(response, returned) ==
    LET ensured == ensure_task(returned, send.last_valid_task)
        last == IF send.task_callback THEN Some(ensured)
                ELSE send.last_valid_task
    IN  /\ send.pc = "streaming"
        /\ Len(send.responses) < MaxResponses
        /\ send' = [send EXCEPT
                       !.responses = Append(@, response),
                       !.called = IF send.task_callback
                                  THEN Append(@, response) ELSE @,
                       !.returned = IF send.task_callback
                                    THEN Append(@, returned) ELSE @,
                       !.last_valid_task = last,
                       !.pc = IF IsFinal(response) THEN "done" ELSE "streaming",
                       !.result = IF IsFinal(response) THEN last ELSE None]
        /\ UNCHANGED Trading

\* The stream ends with no final response.
stream_end ==
    /\ send.pc = "streaming"
    /\ send' = [send EXCEPT !.pc = "done", !.result = send.last_valid_task]
    /\ UNCHANGED Trading

\* The non-streaming mode: the answer of the remote agent, which goes through
\* the callback if there is one.
send_task_response(response, returned) ==
    LET ensured == ensure_task(returned, send.last_valid_task)
    IN  /\ send.pc = "awaiting"
        /\ send' = [send EXCEPT
                       !.responses = Append(@, response),
                       !.called = IF send.task_callback
                                  THEN Append(@, response) ELSE @,
                       !.returned = IF send.task_callback
                                    THEN Append(@, returned) ELSE @,
                       !.last_valid_task = IF send.task_callback
                                           THEN Some(ensured) ELSE @,
                       !.pc = "done",
                       !.result = IF send.task_callback
                                  THEN Some(ensured) ELSE Some(response)]
        /\ UNCHANGED Trading

\* What the callback returns when there is one; nothing is returned when
\* there is none.
ReturnsIn(arg) == IF send.task_callback THEN Returns(arg) ELSE {None}

NextSend ==
    \/ \E streaming \in BOOLEAN, task_callback \in BOOLEAN :
           send_task_begin(streaming, task_callback)
    \/ \E response \in StreamResults :
           \E returned \in ReturnsIn(response) :
               stream_response(response, returned)
    \/ stream_end
    \/ \E response \in TaskResults :
           \E returned \in ReturnsIn(response) :
               send_task_response(response, returned)

SpecSend == Init /\ [][NextSend]_vars

\* ------------------------------------------------------------- the audit
\* The last step was a place_order call that traded.
TradedInLastCall ==
    /\ call.op = "place_order"
    /\ \E k \in 1..Len(fills) : fills[k].incoming = clock

\* The order that was admitted with this timestamp.
Admitted(t) ==
    admitted[CHOOSE n \in 1..Len(admitted) : admitted[n].timestamp = t]

RECURSIVE Filled(_, _)
\* The sum of the quantities of the first k trades that the order admitted
\* with timestamp t took part in.
Filled(t, k) ==
    IF k = 0 THEN 0
    ELSE Filled(t, k - 1)
         + (IF fills[k].buy.timestamp = t \/ fills[k].sell.timestamp = t
            THEN trade_history[k].quantity
            ELSE 0)

\* The orders in the book.
InBook ==
    {order_book.buy[n] : n \in 1..Len(order_book.buy)}
    \cup {order_book.sell[n] : n \in 1..Len(order_book.sell)}

\* The order that the last call returned, if it returned one.
Returned == {result.order[n] : n \in 1..Len(result.order)}

\* The price a call's order gets: the caller's, or else the market agent's.
ResolvedPrice(c) ==
    IF c.price # None THEN c.price
    ELSE IF ~c.response.raised /\ c.response.status = "success"
         THEN Some(c.response.price)
         ELSE None

\* The market agent was asked and gave no price.
NoPriceGiven(c) ==
    /\ c.response # NoResponse
    /\ c.response.raised \/ c.response.status # "success"

\* The resting orders of a fill: the parties that are not the call's order.
Resting(f) == {o \in {f.buy, f.sell} : o.timestamp # f.incoming}

\* ------------------------------------------------------------------ claims
\* C1: after every place_order call, for every symbol, every buy order in
\* the book has a price strictly below every sell order of that symbol:
\* the highest buy price is less than the lowest sell price.
C1_NoCrossedBook ==
    \A symbol \in Symbols :
        LET bids == OfSymbol(order_book.buy, symbol)
            asks == OfSymbol(order_book.sell, symbol)
        IN  \A x \in 1..Len(bids), y \in 1..Len(asks) :
                bids[x].price < asks[y].price

\* C1 witness: the last call traded and left orders on both sides of its
\* symbol.
C1_Witness ==
    /\ TradedInLastCall
    /\ OfSymbol(order_book.buy, call.symbol) # <<>>
    /\ OfSymbol(order_book.sell, call.symbol) # <<>>

Bypassed(list, idx) ==
    \E n \in 1..Len(list) :
        /\ list[n].price = list[idx].price
        /\ list[n].timestamp < list[idx].timestamp
        /\ list[n].quantity > 0

\* C3: in every trade, neither party has, on its side of the symbol, an
\* order of the same price that was admitted earlier and still has
\* quantity left.
C3_TimePriority ==
    \A k \in 1..Len(fills) :
        /\ ~Bypassed(fills[k].buy_orders, fills[k].i)
        /\ ~Bypassed(fills[k].sell_orders, fills[k].j)

\* C3 witness: a resting sell order was filled after an earlier one of the
\* same price was used up, and an order of another symbol was placed between
\* the earlier one and the call.
C3_Witness ==
    \E k \in 1..Len(fills) :
        LET f == fills[k]
        IN  /\ f.j > 1
            /\ f.sell_orders[f.j - 1].price = f.sell.price
            /\ f.sell_orders[f.j - 1].timestamp < f.sell.timestamp
            /\ f.sell.timestamp < f.incoming
            /\ \E n \in 1..Len(admitted) :
                   /\ admitted[n].symbol # f.sell.symbol
                   /\ admitted[n].timestamp > f.sell_orders[f.j - 1].timestamp
                   /\ admitted[n].timestamp < f.incoming

\* C4 as stated: each trade finds its buy order and its sell order with the
\* submitted quantity less the quantities of their earlier trades (each
\* trade takes exactly its quantity from both), the orders in the book have
\* that much left, and the trades of an order never sum to more than the
\* quantity it was submitted with.
C4_QuantityConservation ==
    /\ \A k \in 1..Len(fills) :
           \A o \in {fills[k].buy, fills[k].sell} :
               o.quantity = Admitted(o.timestamp).quantity - Filled(o.timestamp, k - 1)
    /\ \A o \in InBook :
           o.quantity = Admitted(o.timestamp).quantity - Filled(o.timestamp, Len(fills))
    /\ \A n \in 1..Len(admitted) :
           Filled(admitted[n].timestamp, Len(fills)) <= admitted[n].quantity

\* C5 as stated: every order in the book, and the order a call returns, has a
\* quantity left between 0 and the quantity it was submitted with.
C5_RemainingWithinOriginal ==
    \A o \in InBook \cup Returned :
        /\ 0 <= o.quantity
        /\ o.quantity <= Admitted(o.timestamp).quantity

\* C6 as stated: a place_order call with a quantity that is not greater than
\* 0 returns an error and leaves the book and the trade history as they were.
C6_InvalidQuantityRejected ==
    [][(clock' = clock + 1 /\ call'.quantity <= 0) =>
           /\ result'.status = "error"
           /\ order_book' = order_book
           /\ trade_history' = trade_history]_vars

\* C7: a place_order call with no price, to which the market agent gives no
\* price, returns an error and leaves the book and the trade history as they
\* were.
C7_NoPriceAdmitsNothing ==
    [][(clock' = clock + 1 /\ call'.price = None /\ NoPriceGiven(call')) =>
           /\ result'.status = "error"
           /\ order_book' = order_book
           /\ trade_history' = trade_history
           /\ admitted' = admitted]_vars

\* C7 witness: with orders in the book and trades recorded, a call with no
\* price got no price from the market agent and returned an error.
C7_Witness ==
    /\ call.op = "place_order"
    /\ call.price = None
    /\ NoPriceGiven(call)
    /\ result.status = "error"
    /\ InBook # {}
    /\ trade_history # <<>>

\* C8: a place_order call with a side other than buy and sell returns an
\* error without asking the market agent, and a call that returns an error
\* leaves the book and the trade history as they were.
C8_ErrorsChangeNothing ==
    [][clock' = clock + 1 =>
           /\ call'.side \notin {"buy", "sell"} =>
                  /\ result'.status = "error"
                  /\ call'.response = NoResponse
           /\ result'.status = "error" =>
                  /\ order_book' = order_book
                  /\ trade_history' = trade_history
                  /\ admitted' = admitted]_vars

\* C8 witness: with orders in the book and trades recorded, a call with
\* another side and no price returned an error.
C8_Witness ==
    /\ call.op = "place_order"
    /\ call.side \notin {"buy", "sell"}
    /\ call.price = None
    /\ result.status = "error"
    /\ InBook # {}
    /\ trade_history # <<>>

\* C9 as stated: a place_order call whose price, the caller's or the market
\* agent's, is not greater than 0 returns an error, and no order with such a
\* price is in the book or in a trade.
C9_InvalidPriceRejected ==
    /\ (/\ call.op = "place_order"
        /\ ResolvedPrice(call) # None
        /\ ResolvedPrice(call)[1] <= 0) => result.status = "error"
    /\ \A o \in InBook : o.price > 0
    /\ \A k \in 1..Len(fills) :
           fills[k].buy.price > 0 /\ fills[k].sell.price > 0

\* C10 as stated: no two orders that place_order admitted have the same
\* order_id (so no two orders in the book have).
C10_UniqueOrderIds ==
    \A a, b \in 1..Len(admitted) :
        a # b => admitted[a].order_id # admitted[b].order_id

\* C12 as stated: every trade in the trade history has a quantity greater
\* than 0.
C12_TradeQuantityPositive ==
    \A k \in 1..Len(trade_history) : trade_history[k].quantity > 0

\* C13: no order in the book has a quantity of 0 or less, and no resting
\* order that takes part in a trade had a quantity of 0 or less before it (an
\* order that reached 0 is gone from the book and from every later trade).
C13_NoEmptyOrderInBook ==
    /\ \A o \in InBook : o.quantity > 0
    /\ \A k \in 1..Len(fills) :
           \A o \in Resting(fills[k]) : o.quantity > 0

\* C13 witness: the last call used up a resting order, which is no longer in
\* the book, while another order is.
C13_Witness ==
    /\ TradedInLastCall
    /\ InBook # {}
    /\ \E k \in 1..Len(fills) :
           /\ fills[k].incoming = clock
           /\ \E o \in Resting(fills[k]) :
                  /\ o.quantity = trade_history[k].quantity
                  /\ \A b \in InBook : b.timestamp # o.timestamp

\* The list has its orders by price (falling if sign = -1, rising if
\* sign = 1), and at one price by admission.
InPriority(list, sign) ==
    \A x, y \in 1..Len(list) :
        x < y =>
            \/ sign * list[x].price < sign * list[y].price
            \/ /\ list[x].price = list[y].price
               /\ list[x].timestamp < list[y].timestamp

\* C14: for every symbol, get_order_book(symbol) gives the buy orders by
\* price falling then admission rising, and the sell orders by price rising
\* then admission rising.
C14_BookOrdered ==
    \A symbol \in Symbols :
        /\ InPriority(BookOf(order_book, Some(symbol)).buy, -1)
        /\ InPriority(BookOf(order_book, Some(symbol)).sell, 1)

\* C14 witness: the last call was for one symbol, and another symbol has a
\* buy order of a higher price that was admitted after one of a lower price.
C14_Witness ==
    /\ call.op = "place_order"
    /\ result.status = "success"
    /\ \E symbol \in Symbols \ {call.symbol} :
           LET bids == BookOf(order_book, Some(symbol)).buy
           IN  \E x, y \in 1..Len(bids) :
                   /\ bids[x].price > bids[y].price
                   /\ bids[x].timestamp > bids[y].timestamp

\* C15: after a successful place_order, the order of the call is in its own
\* list of the book exactly if it has quantity left, it is never in the other
\* list, what it has left is the submitted quantity less the quantities of
\* the trades of the call, and each of those trades is a trade of this order.
C15_ResidualRests ==
    (call.op = "place_order" /\ result.status = "success") =>
        LET o == result.order[1]
            own == order_book[o.side]
            other == order_book[OtherSide(o.side)]
        IN  /\ (\E n \in 1..Len(own) : own[n] = o) <=> o.quantity > 0
            /\ \A n \in 1..Len(other) : other[n].timestamp # o.timestamp
            /\ o.quantity = call.quantity - Filled(o.timestamp, Len(fills))
            /\ \A k \in 1..Len(fills) :
                   fills[k].incoming = clock =>
                       o.timestamp \in {fills[k].buy.timestamp, fills[k].sell.timestamp}

\* C15 witness: the order of the last call traded and rests with the part
\* that was not filled.
C15_Witness ==
    /\ TradedInLastCall
    /\ result.status = "success"
    /\ result.order[1].quantity > 0
    /\ result.order[1].quantity < call.quantity
    /\ result.order[1] \in InBook

\* An order of the list has a strictly better price than list[idx] (higher
\* if sign = -1, lower if sign = 1) and still has quantity left.
Outranked(list, idx, sign) ==
    \E n \in 1..Len(list) :
        /\ sign * list[n].price < sign * list[idx].price
        /\ list[n].quantity > 0

\* C16: in every trade, neither party has on its side of the symbol an order
\* of a strictly better price with quantity left, and the trades of one call
\* are recorded best price first (sell prices never fall, buy prices never
\* rise).
C16_PricePriority ==
    /\ \A k \in 1..Len(fills) :
           /\ ~Outranked(fills[k].buy_orders, fills[k].i, -1)
           /\ ~Outranked(fills[k].sell_orders, fills[k].j, 1)
    /\ \A k \in 1..Len(fills) - 1 :
           fills[k].incoming = fills[k + 1].incoming =>
               /\ fills[k].sell.price <= fills[k + 1].sell.price
               /\ fills[k].buy.price >= fills[k + 1].buy.price

\* C16 witness: a buy order has traded with two resting sell orders, the
\* lower price first, and nothing of the symbol is left in the book.
C16_Witness ==
    /\ TradedInLastCall
    /\ OfSymbol(order_book.buy, call.symbol) = <<>>
    /\ OfSymbol(order_book.sell, call.symbol) = <<>>
    /\ \E k \in 1..Len(fills) - 1 :
           /\ fills[k].incoming = clock
           /\ fills[k + 1].incoming = clock
           /\ fills[k].buy.timestamp = clock
           /\ fills[k].sell.price < fills[k + 1].sell.price

\* C11: every step, a place_order call or a query, leaves the trade history
\* it found as a prefix of the trade history it leaves: trades are only ever
\* added at the end.
C11_HistoryAppendOnly ==
    [][/\ Len(trade_history') >= Len(trade_history)
       /\ SubSeq(trade_history', 1, Len(trade_history)) = trade_history]_vars

\* C11 witness: trades of two different calls are recorded, and the last
\* call was a get_trade_history for one user that leaves some trade out.
C11_Witness ==
    /\ call.op = "get_trade_history"
    /\ Len(trade_history) >= 2
    /\ trade_history[1].timestamp < trade_history[Len(trade_history)].timestamp
    /\ Len(result) < Len(trade_history)

\* The trades of a history in which the user is the buyer or the seller,
\* oldest first.
TradesWith(history, user) ==
    SelectSeq(history, LAMBDA t : t.buy_user_id = user \/ t.sell_user_id = user)

\* C19 as stated: get_trade_history(user_id) returns the recorded trades in
\* which user_id is the buyer or the seller, in recorded order, and every
\* recorded trade when it is called with no user_id; a call that repeats
\* the one before it returns the same.
C19_TradeHistoryQuery ==
    [][call'.op = "get_trade_history" =>
           /\ call'.arg = None => result' = trade_history'
           /\ call'.arg # None => result' = TradesWith(trade_history', call'.arg[1])
           /\ (call.op = "get_trade_history" /\ call.arg = call'.arg) =>
                  result' = result]_vars

\* C20: a query changes neither the book nor the trade history, and a
\* get_order_book call that repeats the one before it returns the same.
C20_SnapshotReadOnly ==
    [][/\ call'.op \in {"get_order_book", "get_trade_history"} =>
              /\ order_book' = order_book
              /\ trade_history' = trade_history
       /\ (/\ call.op = "get_order_book"
           /\ call'.op = "get_order_book"
           /\ call'.arg = call.arg) => result' = result]_vars

\* C20 witness: with trades recorded, get_order_book for one symbol returned
\* a part of the book and left the orders of the other symbol out.
C20_Witness ==
    /\ call.op = "get_order_book"
    /\ Truthy(call.arg)
    /\ trade_history # <<>>
    /\ result.buy \o result.sell # <<>>
    /\ Len(result.buy) + Len(result.sell) < Len(order_book.buy) + Len(order_book.sell)

\* ------------------------------------------------------------ C17 and C18
AllDone == \A t \in Threads : threads[t].pc = "done"

\* The order a thread placed, as it was admitted.
Placing(t) == admitted[threads[t].timestamp]

\* Who placed the order with a timestamp, in the run of the two threads.
Owner ==
    [k \in 1..clock |->
        IF k = 1 THEN "seed" ELSE CHOOSE t \in Threads : threads[t].timestamp = k]

\* The same, when the calls of the threads of a sequence ran one after the
\* other.
OwnerIn(seq) == [k \in 1..(Len(seq) + 1) |-> IF k = 1 THEN "seed" ELSE seq[k - 1]]

RECURSIVE OneByOne(_)
\* The agent after the calls of the threads of a sequence ran one after the
\* other.
OneByOne(seq) ==
    IF seq = <<>> THEN Seed
    ELSE LET o == Placing(seq[Len(seq)])
         IN  Placed(OneByOne(SubSeq(seq, 1, Len(seq) - 1)), o.user_id, o.symbol,
                    o.side, o.quantity, o.price, Len(seq) + 1)

\* What a caller can see of a symbol: on each side who has how much left,
\* and the trades in the order they were made.
Seen(book, history, owner, symbol) ==
    [buy |-> {<<owner[book.buy[k].timestamp], book.buy[k].quantity>> :
                 k \in {n \in 1..Len(book.buy) : book.buy[n].symbol = symbol}},
     sell |-> {<<owner[book.sell[k].timestamp], book.sell[k].quantity>> :
                  k \in {n \in 1..Len(book.sell) : book.sell[n].symbol = symbol}},
     trades |-> [k \in 1..Len(OfSymbol(history, symbol)) |->
                    <<OfSymbol(history, symbol)[k].price,
                      OfSymbol(history, symbol)[k].quantity>>]]

SeenAfter(seq, symbol) ==
    Seen(OneByOne(seq).book, OneByOne(seq).history, OwnerIn(seq), symbol)

\* C17: when two threads have placed orders of the same symbol, the trades
\* and the book are those of the two calls in one order or the other.
C17_Serializable ==
    (AllDone /\ threads["t1"].symbol = threads["t2"].symbol) =>
        \E seq \in {<<"t1", "t2">>, <<"t2", "t1">>} :
            Seen(order_book, trade_history, Owner, threads["t1"].symbol)
                = SeenAfter(seq, threads["t1"].symbol)

\* C18: when two threads have placed orders of different symbols, the book
\* and the trades of each symbol are those of its call alone.
C18_SymbolsIndependent ==
    (AllDone /\ threads["t1"].symbol # threads["t2"].symbol) =>
        \A t \in Threads :
            Seen(order_book, trade_history, Owner, threads[t].symbol)
                = SeenAfter(<<t>>, threads[t].symbol)

\* The trades that the last place_order call recorded.
TradesOfCall == SelectSeq(trade_history, LAMBDA t : t.timestamp = clock)

\* C21: the result of a successful place_order call holds the order of the
\* call with the quantity it has left after the trades of the call, and the
\* list of the trades of the call.
C21_ResultHasOrderAndTrades ==
    (call.op = "place_order" /\ result.status = "success") =>
        /\ \E o \in Returned :
               /\ o.timestamp = clock
               /\ o.quantity = Admitted(clock).quantity - Filled(clock, Len(fills))
        /\ "trades" \in DOMAIN result
        /\ result.trades = TradesOfCall

\* C22 as stated: a place_order call asks the market agent when the caller
\* gives no price and does not ask when the caller gives one, and every
\* admitted order has a price.
C22_AskedIffNoPrice ==
    /\ call.op = "place_order" =>
           (call.response # NoResponse <=> call.price = None)
    /\ \A n \in 1..Len(admitted) : admitted[n].price \in Prices

\* C22 as amended: a place_order call asks the market agent, once, when the
\* side is valid and the caller gives no price, and does not ask otherwise;
\* when the market agent gives no price no order is admitted; an admitted
\* order has the caller's price, or else the price the market agent gave.
C22_AskedIffValidSideAndNoPrice ==
    /\ call.op = "place_order" =>
           /\ call.response # NoResponse
                  <=> (call.price = None /\ call.side \in {"buy", "sell"})
           /\ NoPriceGiven(call) =>
                  /\ result.status = "error"
                  /\ \A n \in 1..Len(admitted) : admitted[n].timestamp # clock
           /\ (call.side \in {"buy", "sell"} /\ ResolvedPrice(call) # None) =>
                  /\ result.status = "success"
                  /\ \E n \in 1..Len(admitted) :
                         /\ admitted[n].timestamp = clock
                         /\ admitted[n].price = ResolvedPrice(call)[1]
    /\ \A n \in 1..Len(admitted) : admitted[n].price \in Prices

\* C22 witness: a call with no price got a price from the market agent and
\* its order traded with an order of the book at that price.
C22_Witness ==
    /\ call.op = "place_order"
    /\ call.price = None
    /\ call.response.status = "success"
    /\ result.status = "success"
    /\ \E k \in 1..Len(fills) :
           /\ fills[k].incoming = clock
           /\ fills[k].sell.timestamp = clock
           /\ trade_history[k].price = call.response.price

\* The orders of a symbol on the side opposite to a side, best price first.
Opposing(book, symbol, side) ==
    sorted(OfSymbol(book[OtherSide(side)], symbol),
           IF side = "buy" THEN 1 ELSE -1)

\* C23: when the order of a place_order call crosses the best order of the
\* opposite side and that order is the caller's own, the call records a trade
\* whose buyer and seller are the caller.
C23_SelfTradeRecorded ==
    [][(/\ call'.op = "place_order"
        /\ clock' = clock + 1
        /\ result'.status = "success"
        /\ Opposing(order_book, call'.symbol, call'.side) # <<>>
        /\ LET best == Opposing(order_book, call'.symbol, call'.side)[1]
           IN  /\ best.user_id = call'.user_id
               /\ IF call'.side = "buy"
                  THEN call'.price[1] >= best.price
                  ELSE best.price >= call'.price[1])
       => /\ Len(trade_history') > Len(trade_history)
          /\ LET trade == trade_history'[Len(trade_history) + 1]
             IN  /\ trade.buy_user_id = call'.user_id
                 /\ trade.sell_user_id = call'.user_id]_vars

\* C23 witness: with another participant's order in the book, a participant
\* has traded with their own resting order.
C23_Witness ==
    /\ TradedInLastCall
    /\ \E o \in InBook : o.user_id # call.user_id
    /\ \E k \in 1..Len(fills) :
           /\ fills[k].incoming = clock
           /\ fills[k].buy.timestamp # fills[k].sell.timestamp
           /\ trade_history[k].buy_user_id = call.user_id
           /\ trade_history[k].sell_user_id = call.user_id

\* C24: the quantity of every trade is the smaller of the quantities the buy
\* order and the sell order have left just before it, so the trade leaves one
\* of the two with nothing; and after a place_order call the order of the
\* call has nothing left or crosses no order of the other side of its symbol.
C24_TradeQuantityIsMin ==
    /\ \A k \in 1..Len(fills) :
           LET q == trade_history[k].quantity
               b == fills[k].buy.quantity
               s == fills[k].sell.quantity
           IN  /\ q \in {b, s}
               /\ q <= b
               /\ q <= s
               /\ b - q = 0 \/ s - q = 0
    /\ (call.op = "place_order" /\ result.status = "success") =>
           \A o \in Returned :
               \/ o.quantity = 0
               \/ \A r \in InBook :
                      (r.symbol = o.symbol /\ r.side # o.side) =>
                          IF o.side = "buy" THEN o.price < r.price
                          ELSE r.price < o.price

\* C24 witness: the order of a call traded with two orders of the book, took
\* all of the first, and then had nothing left.
C24_Witness ==
    /\ call.op = "place_order"
    /\ \A o \in Returned : o.quantity = 0
    /\ \E k \in 1..Len(fills) :
           /\ k + 1 \in 1..Len(fills)
           /\ fills[k].incoming = clock
           /\ fills[k + 1].incoming = clock
           /\ \A r \in Resting(fills[k]) : r.quantity = trade_history[k].quantity
           /\ \A r \in Resting(fills[k + 1]) :
                  r.quantity > trade_history[k + 1].quantity

\* C25: the price of every trade is the price of the sell order of the pair,
\* whether the order of the call is the buy or the sell, and so is not below
\* the sell order's price and not above the buy order's price.
C25_TradePriceWithinPair ==
    \A k \in 1..Len(fills) :
        /\ trade_history[k].price = fills[k].sell.price
        /\ fills[k].sell.price <= trade_history[k].price
        /\ trade_history[k].price <= fills[k].buy.price

\* C25 witness: a buy order of a call has traded with a resting sell of a
\* lower price, and a sell order of a call with a resting buy of a higher
\* price.
C25_Witness ==
    /\ \E k \in 1..Len(fills) :
           /\ fills[k].buy.timestamp = fills[k].incoming
           /\ fills[k].sell.price < fills[k].buy.price
    /\ \E k \in 1..Len(fills) :
           /\ fills[k].sell.timestamp = fills[k].incoming
           /\ fills[k].sell.price < fills[k].buy.price

\* C26: a place_order call for a symbol records only trades between orders
\* of that symbol, and leaves what get_order_book shows of every other
\* symbol as it was: the same orders, with the same quantities, in the same
\* order.
C26_OtherSymbolsUntouched ==
    [][(call'.op = "place_order" /\ clock' = clock + 1) =>
           /\ \A k \in (Len(fills) + 1)..Len(fills') :
                  /\ fills'[k].buy.symbol = call'.symbol
                  /\ fills'[k].sell.symbol = call'.symbol
                  /\ trade_history'[k].symbol = call'.symbol
           /\ \A s \in Symbols \ {call'.symbol} :
                  /\ OfSymbol(order_book'.buy, s) = OfSymbol(order_book.buy, s)
                  /\ OfSymbol(order_book'.sell, s) = OfSymbol(order_book.sell, s)]_vars

\* C26 witness: a call for one symbol traded while two orders of the other
\* symbol rest on one side of the book.
C26_Witness ==
    /\ TradedInLastCall
    /\ \E side \in ValidSides :
           Len(SelectSeq(order_book[side], LAMBDA o : o.symbol # call.symbol)) >= 2

\* The passes of the loop that traded in the call that made fills[k].
PassesOf(k) == {n \in 1..Len(fills) : fills[n].incoming = fills[k].incoming}

\* The order with a timestamp is in the book with a quantity.
RestsWith(timestamp, quantity) ==
    \E r \in InBook : r.timestamp = timestamp /\ r.quantity = quantity

\* C27: every pass of the loop that finds crossing prices moves the buy
\* index or the sell index on by one, the index of an order that has nothing
\* left, also when a quantity is 0 or negative; so a call makes no more
\* passes than there are buy and sell orders of the symbol, and the book it
\* leaves holds what the last pass left.
C27_LoopAdvances ==
    \A k \in 1..Len(fills) :
        LET f == fills[k]
            q == trade_history[k].quantity
        IN  /\ f.buy.quantity = q \/ f.sell.quantity = q
            /\ Cardinality(PassesOf(k)) <= Len(f.buy_orders) + Len(f.sell_orders)
            /\ (k < Len(fills) /\ fills[k + 1].incoming = f.incoming) =>
                   /\ fills[k + 1].i = IF f.buy.quantity = q THEN f.i + 1 ELSE f.i
                   /\ fills[k + 1].j = IF f.sell.quantity = q THEN f.j + 1 ELSE f.j
                   /\ fills[k + 1].i + fills[k + 1].j > f.i + f.j
            /\ (k = Len(fills) /\ f.incoming = clock) =>
                   /\ \A r \in InBook :
                          r.timestamp = f.buy.timestamp => f.buy.quantity # q
                   /\ \A r \in InBook :
                          r.timestamp = f.sell.timestamp => f.sell.quantity # q
                   /\ f.buy.quantity # q =>
                          RestsWith(f.buy.timestamp, f.buy.quantity - q)
                   /\ f.sell.quantity # q =>
                          RestsWith(f.sell.timestamp, f.sell.quantity - q)

\* C27 witness: after a pass that traded a quantity of 0 or less, a call
\* made two passes.
C27_Witness ==
    /\ call.op = "place_order"
    /\ \E k \in 1..Len(fills) : trade_history[k].quantity <= 0
    /\ Len(fills) >= 2
    /\ fills[Len(fills)].incoming = clock
    /\ fills[Len(fills) - 1].incoming = clock

\* C28: whatever the mode, the callback and the responses, a send_task call
\* that has returned has returned a Task.
C28_ReturnsTask ==
    send.pc = "done" => (send.result # None /\ send.result[1].kind = "Task")

\* C29: in streaming mode with a callback, the first call of the callback has
\* a SUBMITTED task with the id and the session id of the request, the calls
\* after it have the responses of the stream, one each and in their order,
\* and the first final response is the last response read and ends the call.
C29_CallbackOrder ==
    (send.pc # "idle" /\ send.streaming /\ send.task_callback) =>
        /\ send.called # <<>>
        /\ send.called[1].kind = "Task"
        /\ send.called[1].state = "submitted"
        /\ send.called[1].id = Request.id
        /\ send.called[1].sessionId = Request.sessionId
        /\ Len(send.called) = Len(send.responses) + 1
        /\ \A k \in 1..Len(send.responses) :
               /\ send.called[k + 1] = send.responses[k]
               /\ send.responses[k].final =>
                      (k = Len(send.responses) /\ send.pc = "done")

\* C29 witness: the callback was called with the SUBMITTED task and with
\* three responses, the last of them final, and send_task returned.
C29_Witness ==
    /\ send.streaming
    /\ send.task_callback
    /\ send.pc = "done"
    /\ Len(send.called) = 4
    /\ send.responses[3].final
    /\ send.responses[1].kind = "TaskArtifactUpdateEvent"

\* C30: when the callback returns nothing, the remembered task stays the one
\* that was remembered before, and there is one; the remembered task is
\* always a Task; and a task made of an event that the callback returned has
\* the id and the session id of the request.
C30_KeepsLastValidTask ==
    [][(Len(send'.returned) = Len(send.returned) + 1) =>
           LET returned == send'.returned[Len(send'.returned)]
           IN  /\ send'.last_valid_task # None
               /\ send'.last_valid_task[1].kind = "Task"
               /\ returned = None =>
                      /\ send.last_valid_task # None
                      /\ send'.last_valid_task = send.last_valid_task
               /\ (returned # None /\ returned[1].kind # "Task") =>
                      /\ send'.last_valid_task[1].id = Request.id
                      /\ send'.last_valid_task[1].sessionId = Request.sessionId]_vars

====
